---- MODULE Spec2Model ----
(***************************************************************************)
(* tellophone: a phone as a Tello remote control.  One event loop          *)
(* (appMain) handles lifecycle, paint, size, touch and sensor events, each *)
(* to completion; the handlers update the package-level control state and  *)
(* call into the drone link, the sensor package and the GL context.        *)
(*                                                                         *)
(* Numbers.  The control axes are float64 in the program.  Here an axis is *)
(* the numerator of a fraction with a fixed denominator:                   *)
(*   yawVelocity, velocity.z   in units of 1/TouchUnit,                    *)
(*   velocity.x,  velocity.y   in units of 1/TiltUnit,                     *)
(* accelerometer readings are integers in units of 0.1 m/s^2 and touch     *)
(* coordinates are whole pixels.  Arithmetic is that of the reals.  The    *)
(* arctangent is not rational: AtanNorm gives the set of grid values in    *)
(* the bracket that the true value lies in, and the model takes any one.   *)
(***************************************************************************)
EXTENDS Integers, Sequences, FiniteSets, TLC

(* ------------------------------ bounds -------------------------------- *)
\* viewport widths and heights, and touch coordinates, range over 0..MaxPx
MaxPx == 2
\* tilt values are multiples of 1/(2*TiltRes)
TiltRes == 2
\* paint events the program has queued for itself and not yet handled
MaxPaintQ == 2
\* the debounce window of the specification, in clock ticks
DebounceTicks == 1

(* ------------------------- program constants -------------------------- *)
\* 9.8, in units of 0.1 m/s^2
Gravity == 98
\* 3.0, the deviation from 1 g beyond which a sample is a gesture
TriggerDev == 3
\* math.MaxInt16
MaxInt16 == 32767

(* ------------------------------ numbers ------------------------------- *)
Abs(a) == IF a < 0 THEN -a ELSE a

RECURSIVE GCD(_, _)
GCD(a, b) == IF b = 0 THEN a ELSE GCD(b, a % b)

LCM(a, b) == (a * b) \div GCD(a, b)

RECURSIVE LCMUpTo(_)
LCMUpTo(n) == IF n <= 1 THEN 1 ELSE LCM(LCMUpTo(n - 1), n)

\* a viewport of 100 by 100 pixels, the size.Event of a phone-sized window
CentreSize == [WidthPx |-> 100, HeightPx |-> 100]

\* every (WidthPx - 1) with 2 <= WidthPx <= MaxPx divides TouchUnit, and so
\* does CentreSize.WidthPx - 1
TouchUnit == LCM(LCMUpTo(MaxPx - 1), CentreSize.WidthPx - 1)

TiltUnit == 2 * TiltRes

\* quotient rounded toward zero, as a float-to-integer conversion rounds
Trunc(a, b) == IF a >= 0 THEN a \div b ELSE -((-a) \div b)

\* conversion to int16: the value itself when it fits, two's complement
\* wrap-around of the low 16 bits otherwise
Int16(v) == ((v + 32768) % 65536) - 32768

Min(a, b) == IF a < b THEN a ELSE b
Max(a, b) == IF a > b THEN a ELSE b

(* ------------------------------- state -------------------------------- *)
VARIABLES
    pc,           \* "main" before initDrone has run, "loop" in appMain
    appSize,      \* last size.Event: [WidthPx, HeightPx]
    velocity,     \* coord: x = roll, y = pitch, z = throttle
    yawVelocity,
    flightData,   \* last polled telemetry: [Flying, BatteryLow, BatteryCritical]
    glctx,        \* TRUE when a draw context is held, FALSE for nil
    connected,    \* the drone link: control connection established
    sensorOn,     \* the sensor package: accelerometer delivery enabled
    paintQ,       \* paint.Event{} sent by the program and still queued
    sinceCmd,     \* the clock of SpecTimed: ticks since the last TakeOff or
                  \* Land call, saturating at LongAgo (which also stands for
                  \* "no such call yet"); the other specifications leave it
    lastEvt,      \* the event handled last
    calls         \* collaborator calls made while handling lastEvt, in order

vars == <<pc, appSize, velocity, yawVelocity, flightData, glctx, connected,
          sensorOn, paintQ, sinceCmd, lastEvt, calls>>

LongAgo == DebounceTicks + 1

ZeroCoord == [x |-> 0, y |-> 0, z |-> 0]

NoFlightData == [Flying |-> FALSE, BatteryLow |-> FALSE, BatteryCritical |-> FALSE]

\* events have one shape: kind, a type tag, and up to three numbers
Evt(kind, type, x, y, z) == [kind |-> kind, type |-> type, x |-> x, y |-> y, z |-> z]

NoEvt == Evt("none", "", 0, 0, 0)

\* the part of the state the handlers work on
Globals == [appSize |-> appSize, velocity |-> velocity, yawVelocity |-> yawVelocity,
            flightData |-> flightData, connected |-> connected,
            sensorOn |-> sensorOn, calls |-> <<>>]

\* a collaborator call, with the control vector and the flying flag at the
\* moment of the call
Call(s, op, arg) ==
    [op |-> op, arg |-> arg,
     ctrl |-> <<s.velocity.x, s.velocity.y, s.velocity.z, s.yawVelocity>>,
     flying |-> s.flightData.Flying]

Do(s, op, arg) == [s EXCEPT !.calls = Append(@, Call(s, op, arg))]

Log(s) == Do(s, "log", <<>>)

(* ----------------------------- the encoder ---------------------------- *)
\* telloParam with the clamp left out: the product goes to int16 as it is
telloParam_NoClamp(val, unit) == Int16(Trunc(MaxInt16 * val, unit))

\* func telloParam(val float64) int16, for the value val/unit:
\*   int16(math.MaxInt16 * math.Max(-1.0, math.Min(1.0, val)))
telloParam(val, unit) ==
    Int16(Trunc(MaxInt16 * Max(-unit, Min(unit, val)), unit))

\* updateCtrl with the two left-stick fields exchanged
updateCtrl_SwapLeft(s) ==
    Do(s, "UpdateSticks",
       <<telloParam(s.velocity.x, TiltUnit),
         telloParam(s.velocity.y, TiltUnit),
         telloParam(s.velocity.z, TouchUnit),
         telloParam(s.yawVelocity, TouchUnit)>>)

\* func updateCtrl(): one UpdateSticks call carrying the four encoded axes
updateCtrl(s) ==
    Do(s, "UpdateSticks",
       <<telloParam(s.velocity.x, TiltUnit),
         telloParam(s.velocity.y, TiltUnit),
         telloParam(s.yawVelocity, TouchUnit),
         telloParam(s.velocity.z, TouchUnit)>>)

(* ------------------------------- touch -------------------------------- *)
\* the touch mapping without its offset: 2.0*X/(WidthPx-1)
TouchAxis_NoOffset(p, sizePx) == (2 * p) * (TouchUnit \div (sizePx - 1))

\* 2.0*float64(evt.X)/float64(appSize.WidthPx-1) - 1.0, in units of 1/TouchUnit
TouchAxis(p, sizePx) == (2 * p - (sizePx - 1)) * (TouchUnit \div (sizePx - 1))

\* onTouch without the test for touch.TypeEnd
onTouch_NoEnd(s, evt) ==
    updateCtrl(
        IF s.appSize.WidthPx < 2 \/ s.appSize.HeightPx < 2
        THEN [s EXCEPT !.velocity.z = 0, !.yawVelocity = 0]
        ELSE [s EXCEPT !.yawVelocity = TouchAxis(evt.x, s.appSize.WidthPx),
                       !.velocity.z = -TouchAxis(evt.y, s.appSize.HeightPx)])

\* func onTouch(evt touch.Event)
onTouch(s, evt) ==
    updateCtrl(
        IF evt.type = "End" \/ s.appSize.WidthPx < 2 \/ s.appSize.HeightPx < 2
        THEN [s EXCEPT !.velocity.z = 0, !.yawVelocity = 0]
        ELSE [s EXCEPT !.yawVelocity = TouchAxis(evt.x, s.appSize.WidthPx),
                       !.velocity.z = -TouchAxis(evt.y, s.appSize.HeightPx)])

(* --------------------------- takeoff and land ------------------------- *)
\* resetCtrl that forgets the yaw axis
resetCtrl_KeepYaw(s) == Do([s EXCEPT !.velocity = ZeroCoord], "Hover", <<>>)

\* func resetCtrl(): zero the four axes, then Hover
resetCtrl(s) ==
    Do([s EXCEPT !.velocity = ZeroCoord, !.yawVelocity = 0], "Hover", <<>>)

\* takeoffLand with the branch the wrong way round
takeoffLand_Swapped(s) ==
    LET r == resetCtrl(s)
    IN  IF r.flightData.Flying THEN Do(r, "TakeOff", <<>>) ELSE Do(r, "Land", <<>>)

\* takeoffLand keeping a flying flag of its own, flipped at every call
takeoffLand_Flip(s) ==
    LET r == resetCtrl(s)
        c == IF r.flightData.Flying THEN Do(r, "Land", <<>>) ELSE Do(r, "TakeOff", <<>>)
    IN  [c EXCEPT !.flightData.Flying = ~@]

\* func takeoffLand()
takeoffLand(s) ==
    LET r == resetCtrl(s)
    IN  IF r.flightData.Flying THEN Do(r, "Land", <<>>) ELSE Do(r, "TakeOff", <<>>)

(* ------------------------------- sensor ------------------------------- *)
\* the gesture test with >= for >
Trigger_Inclusive(z) == Abs(z - Gravity) >= TriggerDev * Gravity

\* math.Abs(accel.z/9.8 - 1.0) > 3.0 with z in tenths: |z - 98| > 3 * 98
Trigger(z) == Abs(z - Gravity) > TriggerDev * Gravity

\* hyp := math.Sqrt(a*a + b*b), squared
Hyp2(a, b) == a * a + b * b

\* the grid values that math.Atan(num/hyp) / (0.5*math.Pi) can stand for,
\* hyp2 = hyp*hyp > 0: 0 and +-1/2 are exact (num = 0, |num| = hyp), the
\* others are known by their bracket, (0, 1/2) or (1/2, 1), and their sign
AtanNorm(num, hyp2) ==
    LET sgn == IF num < 0 THEN -1 ELSE 1
    IN  IF num = 0 THEN {0}
        ELSE IF num * num = hyp2 THEN {sgn * TiltRes}
        ELSE IF num * num < hyp2 THEN {sgn * k : k \in 1..(TiltRes - 1)}
        ELSE {sgn * k : k \in (TiltRes + 1)..(TiltUnit - 1)}

\* what the action may draw for an arctangent the handler evaluates or skips
AtanChoices(num, hyp2) == IF hyp2 = 0 THEN {0} ELSE AtanNorm(num, hyp2)

\* what math.Atan(num/hyp) / (0.5*math.Pi) is when hyp = 0: num/0 is an
\* infinity and the arctangent a quarter turn, or num = 0 and the result
\* is no number (TiltUnit + 1 stands for NaN)
AtanDivZero(num) ==
    IF num > 0 THEN TiltUnit ELSE IF num < 0 THEN -TiltUnit ELSE TiltUnit + 1

\* onSensor dividing by the hypotenuse without testing it
onSensor_NoGuard(s, evt, ar, ap, fd) ==
    IF evt.type # "Accelerometer" THEN s
    ELSE IF Trigger(evt.z) THEN takeoffLand(s)
    ELSE LET roll  == IF Hyp2(evt.x, evt.z) # 0 THEN ar ELSE AtanDivZero(evt.y)
             pitch == IF Hyp2(evt.y, evt.z) # 0 THEN ap ELSE AtanDivZero(evt.x)
             u == updateCtrl([s EXCEPT !.velocity.x = roll, !.velocity.y = -pitch])
         IN  [Do(u, "GetFlightData", <<>>) EXCEPT !.flightData = fd]

\* onSensor storing a fresh coord{x: roll, y: -pitch}, which clears z
onSensor_ClearsThrottle(s, evt, ar, ap, fd) ==
    IF evt.type # "Accelerometer" THEN s
    ELSE IF Trigger(evt.z) THEN takeoffLand(s)
    ELSE LET roll  == IF Hyp2(evt.x, evt.z) # 0 THEN ar ELSE 0
             pitch == IF Hyp2(evt.y, evt.z) # 0 THEN ap ELSE 0
             u == updateCtrl([s EXCEPT !.velocity = [x |-> roll, y |-> -pitch, z |-> 0]])
         IN  [Do(u, "GetFlightData", <<>>) EXCEPT !.flightData = fd]

\* onSensor without the return after takeoffLand(): a gesture sample goes
\* on to the tilt computation, the stick message and the telemetry poll
onSensor_NoReturn(s, evt, ar, ap, fd) ==
    IF evt.type # "Accelerometer" THEN s
    ELSE LET g == IF Trigger(evt.z) THEN takeoffLand(s) ELSE s
             roll  == IF Hyp2(evt.x, evt.z) # 0 THEN ar ELSE 0
             pitch == IF Hyp2(evt.y, evt.z) # 0 THEN ap ELSE 0
             u == updateCtrl([g EXCEPT !.velocity.x = roll, !.velocity.y = -pitch])
         IN  [Do(u, "GetFlightData", <<>>) EXCEPT !.flightData = fd]

\* func onSensor(evt sensor.Event); ar and ap are the results of the two
\* math.Atan calls (over 0.5*math.Pi), fd is what GetFlightData returns
onSensor(s, evt, ar, ap, fd) ==
    IF evt.type # "Accelerometer" THEN s
    ELSE IF Trigger(evt.z) THEN takeoffLand(s)
    ELSE LET roll  == IF Hyp2(evt.x, evt.z) # 0 THEN ar ELSE 0
             pitch == IF Hyp2(evt.y, evt.z) # 0 THEN ap ELSE 0
             u == updateCtrl([s EXCEPT !.velocity.x = roll, !.velocity.y = -pitch])
         IN  [Do(u, "GetFlightData", <<>>) EXCEPT !.flightData = fd]

(* ------------------------------ lifecycle ----------------------------- *)
\* a failed call leaves the collaborator as it was
\* func initDrone()
initDrone(s, connErr) ==
    LET c == Do(s, "ControlConnectDefault", <<>>)
    IN  IF connErr THEN Log(c) ELSE [c EXCEPT !.connected = TRUE]

\* onStart returning at the first error, as it does for CreateProgram
onStart_ReturnOnError(s, enableErr, connErr, progErr) ==
    LET a == Do(s, "Enable", <<>>)
        c == Do([a EXCEPT !.sensorOn = TRUE], "ControlConnectDefault", <<>>)
    IN  IF enableErr THEN Log(a)
        ELSE IF connErr THEN Log(c)
        ELSE Do([c EXCEPT !.connected = TRUE], "CreateProgram", <<>>)

\* func onStart()
onStart(s, enableErr, connErr, progErr) ==
    LET a == Do(s, "Enable", <<>>)
        b == IF enableErr THEN Log(a) ELSE [a EXCEPT !.sensorOn = TRUE]
        c == Do(b, "ControlConnectDefault", <<>>)
        d == IF connErr THEN Log(c) ELSE [c EXCEPT !.connected = TRUE]
        e == Do(d, "CreateProgram", <<>>)
    IN  IF progErr THEN Log(e)
        ELSE Do(Do(Do(Do(Do(e, "CreateBuffer", <<>>), "BindBuffer", <<>>),
                      "BufferData", <<>>), "GetAttribLocation", <<>>),
                "GetUniformLocation", <<>>)

\* onStop closing the control connection before it resets the sticks
onStop_DisconnectFirst(s, disableErr) ==
    LET a == [Do(s, "ControlDisconnect", <<>>) EXCEPT !.connected = FALSE]
        b == resetCtrl(a)
        c == Do(b, "Disable", <<>>)
        d == IF disableErr THEN Log(c) ELSE [c EXCEPT !.sensorOn = FALSE]
    IN  Do(Do(d, "DeleteProgram", <<>>), "DeleteBuffer", <<>>)

\* func onStop()
onStop(s, disableErr) ==
    LET a == resetCtrl(s)
        b == [Do(a, "ControlDisconnect", <<>>) EXCEPT !.connected = FALSE]
        c == Do(b, "Disable", <<>>)
        d == IF disableErr THEN Log(c) ELSE [c EXCEPT !.sensorOn = FALSE]
    IN  Do(Do(d, "DeleteProgram", <<>>), "DeleteBuffer", <<>>)

(* -------------------------------- paint ------------------------------- *)
\* the clear colour onPaint picks, as (r, g, b) in quarters
ClearColor(fd) ==
    IF fd.BatteryCritical THEN <<2, 0, 0>>
    ELSE IF fd.BatteryLow THEN <<2, 2, 0>>
    ELSE IF fd.Flying THEN <<0, 1, 0>>
    ELSE <<0, 0, 1>>

\* func onPaint(): clear in the state's colour, draw the crosshair twice
onPaint(s) ==
    Do(Do(Do(Do(s, "ClearColor", ClearColor(s.flightData)), "Clear", <<>>),
          "DrawArrays", <<>>), "DrawArrays", <<>>)

(* ------------------------------- inputs ------------------------------- *)
\* a touch event's coordinates, and the sizes a size event may carry
PxVals == 0..MaxPx

SizeVals == 1..MaxPx

TouchTypes == {"Begin", "Move", "End"}

\* every touch event on the pixel grid
TouchEvts == {Evt("touch", ty, x, y, 0) : ty \in TouchTypes, x \in PxVals, y \in PxVals}

\* touches at two opposite corners of the grid
CornerTouchEvts == {e \in TouchEvts : e.x = e.y /\ e.x \in {0, MaxPx}}

\* touches on the middle pixel of the CentreSize viewport and on its
\* neighbours
CentrePx == {CentreSize.WidthPx \div 2 + d : d \in -1..1}

CentreTouchEvts ==
    {Evt("touch", ty, x, y, 0) : ty \in TouchTypes, x \in CentrePx, y \in CentrePx}

\* accelerometer readings: x and y at rest or at -2 g, z on both sides of
\* both gesture thresholds.  With these, num/hyp takes the values 0, -1,
\* one in (-1, 0) and one below -1, and either hypotenuse can be zero.
AccelXY == {-2 * Gravity, 0}

AccelZ == {-2 * Gravity - 1, -2 * Gravity, 0, Gravity, 4 * Gravity, 4 * Gravity + 1}

\* the sensor events delivered: accelerometer readings, and gyroscope
\* readings whose third component is at rest or past the gesture threshold
SensorEvts ==
    {Evt("sensor", "Accelerometer", x, y, z) : x \in AccelXY, y \in AccelXY, z \in AccelZ}
    \cup {Evt("sensor", "Gyroscope", 0, 0, z) : z \in {0, 4 * Gravity + 1}}

\* level, rolled, the two gestures, and a gyroscope reading
FewSensorEvts ==
    {e \in SensorEvts : e.x = 0 /\ e.z \in {-2 * Gravity - 1, Gravity, 4 * Gravity + 1}}

\* what GetFlightData may report
FlightDataVals ==
    {[Flying |-> f, BatteryLow |-> l, BatteryCritical |-> c] :
        <<f, l, c>> \in {<<FALSE, FALSE, FALSE>>, <<TRUE, FALSE, FALSE>>,
                         <<TRUE, TRUE, TRUE>>}}

(* ------------------------------- actions ------------------------------ *)
\* the handler's result becomes the state
Commit(s) ==
    /\ appSize' = s.appSize
    /\ velocity' = s.velocity
    /\ yawVelocity' = s.yawVelocity
    /\ flightData' = s.flightData
    /\ connected' = s.connected
    /\ sensorOn' = s.sensorOn
    /\ calls' = s.calls

IsCmd(c) == c.op \in {"TakeOff", "Land"}

Cmds(cs) == SelectSeq(cs, IsCmd)

\* func main(): initDrone(), then app.Main(appMain)
Main ==
    /\ pc = "main"
    /\ \E connErr \in BOOLEAN : Commit(initDrone(Globals, connErr))
    /\ pc' = "loop"
    /\ lastEvt' = Evt("main", "", 0, 0, 0)
    /\ UNCHANGED <<glctx, paintQ, sinceCmd>>

\* case lifecycle.Event, evt.Crosses(lifecycle.StageVisible) == CrossOn;
\* the host crosses on only from below StageVisible, where glctx is nil
LifecycleOn ==
    /\ pc = "loop" /\ ~glctx /\ paintQ < MaxPaintQ
    /\ \E enableErr \in BOOLEAN, connErr \in BOOLEAN, progErr \in BOOLEAN :
          Commit(onStart(Globals, enableErr, connErr, progErr))
    /\ glctx' = TRUE
    /\ paintQ' = paintQ + 1
    /\ lastEvt' = Evt("lifecycle", "CrossOn", 0, 0, 0)
    /\ UNCHANGED <<pc, sinceCmd>>

\* case lifecycle.Event, CrossOff
LifecycleOff ==
    /\ pc = "loop" /\ glctx
    /\ \E disableErr \in BOOLEAN : Commit(onStop(Globals, disableErr))
    /\ glctx' = FALSE
    /\ lastEvt' = Evt("lifecycle", "CrossOff", 0, 0, 0)
    /\ UNCHANGED <<pc, paintQ, sinceCmd>>

\* case lifecycle.Event that does not cross StageVisible (a focus change)
LifecycleNone ==
    /\ pc = "loop"
    /\ Commit(Globals)
    /\ lastEvt' = Evt("lifecycle", "CrossNone", 0, 0, 0)
    /\ UNCHANGED <<pc, glctx, paintQ, sinceCmd>>

\* the paint case without the glctx == nil test: every queued paint event
\* is painted and followed by another
PaintQueued_NoNilCheck ==
    /\ pc = "loop" /\ paintQ > 0
    /\ Commit(Do(Do(onPaint(Globals), "Publish", <<>>), "Send", <<>>))
    /\ paintQ' = (paintQ - 1) + 1
    /\ lastEvt' = Evt("paint", "Sent", 0, 0, 0)
    /\ UNCHANGED <<pc, glctx, sinceCmd>>

\* case paint.Event, one the program sent itself
PaintQueued ==
    /\ pc = "loop" /\ paintQ > 0
    /\ IF ~glctx
          THEN /\ Commit(Globals)
               /\ paintQ' = paintQ - 1
          ELSE /\ Commit(Do(Do(onPaint(Globals), "Publish", <<>>), "Send", <<>>))
               /\ paintQ' = (paintQ - 1) + 1
    /\ lastEvt' = Evt("paint", "Sent", 0, 0, 0)
    /\ UNCHANGED <<pc, glctx, sinceCmd>>

\* case paint.Event from the system (evt.External): dropped
PaintExternal ==
    /\ pc = "loop"
    /\ Commit(Globals)
    /\ lastEvt' = Evt("paint", "External", 0, 0, 0)
    /\ UNCHANGED <<pc, glctx, paintQ, sinceCmd>>

\* case size.Event
SizeStep(sizes) ==
    /\ pc = "loop"
    /\ \E sz \in sizes :
          /\ Commit([Globals EXCEPT !.appSize = sz])
          /\ lastEvt' = Evt("size", "", sz.WidthPx, sz.HeightPx, 0)
    /\ UNCHANGED <<pc, glctx, paintQ, sinceCmd>>

Size == SizeStep([WidthPx : SizeVals, HeightPx : SizeVals])

\* case touch.Event, the event one of evts
Touch(evts) ==
    /\ pc = "loop"
    /\ \E evt \in evts :
          /\ Commit(onTouch(Globals, evt))
          /\ lastEvt' = evt
    /\ UNCHANGED <<pc, glctx, paintQ, sinceCmd>>

\* case sensor.Event, the event one of evts
SensorStep(evts) ==
    /\ pc = "loop"
    /\ \E evt \in evts :
       \E ar \in AtanChoices(evt.y, Hyp2(evt.x, evt.z)),
          ap \in AtanChoices(evt.x, Hyp2(evt.y, evt.z)),
          fd \in FlightDataVals :
          /\ Commit(onSensor(Globals, evt, ar, ap, fd))
          /\ lastEvt' = evt
    /\ UNCHANGED <<pc, glctx, paintQ>>

Sensor(evts) == SensorStep(evts) /\ UNCHANGED sinceCmd

\* the same under the clock: a TakeOff or Land call restarts it
SensorClocked ==
    /\ SensorStep(SensorEvts)
    /\ sinceCmd' = IF Cmds(calls') # <<>> THEN 0 ELSE sinceCmd

\* the clock: one tick passes between two events
Tick ==
    /\ pc = "loop" /\ sinceCmd < LongAgo
    /\ sinceCmd' = sinceCmd + 1
    /\ UNCHANGED <<pc, appSize, velocity, yawVelocity, flightData, glctx,
                   connected, sensorOn, paintQ, lastEvt, calls>>

Init ==
    /\ pc = "main"
    /\ appSize = [WidthPx |-> 0, HeightPx |-> 0]
    /\ velocity = ZeroCoord
    /\ yawVelocity = 0
    /\ flightData = NoFlightData
    /\ glctx = FALSE
    /\ connected = FALSE
    /\ sensorOn = FALSE
    /\ paintQ = 0
    /\ sinceCmd = LongAgo
    /\ lastEvt = NoEvt
    /\ calls = <<>>

\* the whole program: every kind of event, touches at the corners and a
\* few sensor readings
TouchCorner == Touch(CornerTouchEvts)

SensorFew == Sensor(FewSensorEvts)

Next ==
    \/ Main
    \/ LifecycleOn
    \/ LifecycleOff
    \/ LifecycleNone
    \/ PaintQueued
    \/ PaintExternal
    \/ Size
    \/ TouchCorner
    \/ SensorFew

Spec == Init /\ [][Next]_vars

\* the touch mapping: every touch on the pixel grid in every viewport,
\* between a few sensor readings
TouchAny == Touch(TouchEvts)

NextTouch ==
    \/ Main
    \/ Size
    \/ TouchAny
    \/ SensorFew

SpecTouch == Init /\ [][NextTouch]_vars

\* the sensor mapping: every reading of the accelerometer grid, between
\* touches at the corners
SensorAny == Sensor(SensorEvts)

NextSensor ==
    \/ Main
    \/ Size
    \/ TouchCorner
    \/ SensorAny

SpecSensor == Init /\ [][NextSensor]_vars

\* the gesture detector under the clock
NextTimed ==
    \/ Main
    \/ SensorClocked
    \/ Tick

SpecTimed == Init /\ [][NextTimed]_vars

\* the loop in a viewport of CentreSize: touches around the middle pixel
SizeCentre == SizeStep({CentreSize})

TouchCentre == Touch(CentreTouchEvts)

NextCentre ==
    \/ Main
    \/ SizeCentre
    \/ TouchCentre
    \/ SensorFew

SpecCentre == Init /\ [][NextCentre]_vars

\* the encoder on its own: the four axes hold any grid value from -2 to 2
\* and updateCtrl encodes them
EncodeVals(unit) == (-2 * unit)..(2 * unit)

InitEncode ==
    /\ pc = "loop"
    /\ appSize = [WidthPx |-> 0, HeightPx |-> 0]
    /\ velocity \in [x : EncodeVals(TiltUnit), y : {0}, z : {0}]
    /\ yawVelocity \in EncodeVals(TouchUnit)
    /\ flightData = NoFlightData
    /\ glctx = FALSE
    /\ connected = FALSE
    /\ sensorOn = FALSE
    /\ paintQ = 0
    /\ sinceCmd = LongAgo
    /\ lastEvt = NoEvt
    /\ calls = <<>>

Encode ==
    /\ lastEvt = NoEvt
    /\ Commit(updateCtrl(Globals))
    /\ lastEvt' = Evt("encode", "", 0, 0, 0)
    /\ UNCHANGED <<pc, glctx, paintQ, sinceCmd>>

SpecEncode == InitEncode /\ [][Encode]_vars

(* ------------------------------ properties ---------------------------- *)
N(cs, op) == Cardinality({i \in DOMAIN cs : cs[i].op = op})

Ops(cs) == [i \in DOMAIN cs |-> cs[i].op]

Sticks == SelectSeq(calls, LAMBDA c : c.op = "UpdateSticks")

\* |z/9.8 - 1| > 3.0, solved for z: z > 4 g or z < -2 g
GestureEvt(e) ==
    e.kind = "sensor" /\ e.type = "Accelerometer"
    /\ (e.z > 4 * Gravity \/ e.z < -2 * Gravity)

\* the step handles an event (it is not the clock's)
NotTick == sinceCmd' # sinceCmd + 1

\* C1 (as claimed): a gesture sample that arrives within the debounce window
\* of the last TakeOff or Land call makes no further such call, and one that
\* arrives after the window makes exactly one.
C1_Debounced ==
    [][(GestureEvt(lastEvt') /\ NotTick)
        => Len(Cmds(calls')) = (IF sinceCmd <= DebounceTicks THEN 0 ELSE 1)]_vars

\* C2: at every TakeOff or Land call the four control axes are zero.
C2_ZeroRolls ==
    \A i \in DOMAIN calls : IsCmd(calls[i]) => calls[i].ctrl = <<0, 0, 0, 0>>

C2_Witness ==
    /\ GestureEvt(lastEvt)
    /\ Ops(calls) = <<"Hover", "TakeOff">>
    /\ appSize.WidthPx >= 2 /\ appSize.HeightPx >= 2

C5_GestureIffDeviation ==
    [][lastEvt'.kind = "sensor"
        => /\ (Cmds(calls') # <<>>) <=> GestureEvt(lastEvt')
           /\ GestureEvt(lastEvt') => Ops(calls') = <<"Hover", Cmds(calls')[1].op>>
           /\ lastEvt'.type # "Accelerometer"
                => /\ calls' = <<>>
                   /\ UNCHANGED <<pc, appSize, velocity, yawVelocity, flightData,
                                  glctx, connected, sensorOn, paintQ, sinceCmd>>]_vars

C5_Witness ==
    /\ lastEvt = Evt("sensor", "Accelerometer", -2 * Gravity, -2 * Gravity, 4 * Gravity + 1)
    /\ Cmds(calls) # <<>>

\* one axis of a stick message: value v (in units of 1/u) was encoded as o
EncodedEnds(v, u, o) ==
    /\ v >= u => o = 32767
    /\ v <= -u => o = -32767
    /\ v = 0 => o = 0
    /\ (v > 0 => o > 0) /\ (v < 0 => o < 0)

\* C6: in every stick message 1.0 is encoded as 32767, -1.0 as -32767, 0 as
\* 0, a value above 1.0 as 1.0 is and a value below -1.0 as -1.0 is, and the
\* sign of a value is never lost to wrap-around.
C6_EncodedEnds ==
    \A i \in DOMAIN Sticks :
        LET c == Sticks[i]
        IN  /\ EncodedEnds(c.ctrl[1], TiltUnit, c.arg[1])
            /\ EncodedEnds(c.ctrl[2], TiltUnit, c.arg[2])
            /\ EncodedEnds(c.ctrl[4], TouchUnit, c.arg[3])
            /\ EncodedEnds(c.ctrl[3], TouchUnit, c.arg[4])

C6_Witness ==
    /\ Sticks # <<>>
    /\ Sticks[1].ctrl[1] = -TiltUnit - 1 /\ Sticks[1].arg[1] = -32767
    /\ Sticks[1].ctrl[4] = 2 * TouchUnit /\ Sticks[1].arg[3] = 32767

\* round(clamp(v/u, -1, 1) * 32767), halves away from zero
RoundRef(v, u) ==
    LET p == 32767 * Max(-u, Min(u, v))
    IN  IF p >= 0 THEN (2 * p + u) \div (2 * u)
                  ELSE -((2 * (-p) + u) \div (2 * u))

\* C7 (as claimed): every field of every stick message is the rounding
\* reference mapping of its axis.
C7_RoundsToNearest ==
    \A i \in DOMAIN Sticks :
        LET c == Sticks[i]
        IN  /\ c.arg[1] = RoundRef(c.ctrl[1], TiltUnit)
            /\ c.arg[2] = RoundRef(c.ctrl[2], TiltUnit)
            /\ c.arg[3] = RoundRef(c.ctrl[4], TouchUnit)
            /\ c.arg[4] = RoundRef(c.ctrl[3], TouchUnit)

InViewport(e) == e.x <= appSize.WidthPx /\ e.y <= appSize.HeightPx

OnPixel(e) == e.x <= appSize.WidthPx - 1 /\ e.y <= appSize.HeightPx - 1

InUnitRange(v, u) == -u <= v /\ v <= u

C9_ReleaseZeroes ==
    (lastEvt.kind = "touch"
     /\ (lastEvt.type = "End" \/ appSize.WidthPx < 2 \/ appSize.HeightPx < 2))
        => /\ yawVelocity = 0 /\ velocity.z = 0
           /\ Ops(calls) = <<"UpdateSticks">>
           /\ calls[1].arg[3] = 0 /\ calls[1].arg[4] = 0

C9_Witness ==
    /\ lastEvt = Evt("touch", "End", MaxPx, 0, 0)
    /\ appSize.WidthPx >= 2 /\ appSize.HeightPx >= 2
    /\ velocity.x # 0
    /\ yawVelocity = 0 /\ velocity.z = 0

\* C10: a failed Enable or ControlConnectDefault is logged and not retried
\* (each is called once by onStart, the connect once by initDrone), the
\* program stays in its event loop, and every touch event and every
\* accelerometer sample that is no gesture still sends its one stick
\* message, whether or not the link and the sensor are up.
C10_FailuresNonFatal ==
    /\ pc \in {"main", "loop"}
    /\ lastEvt.kind = "main"
        => Ops(calls) = (IF connected THEN <<"ControlConnectDefault">>
                                      ELSE <<"ControlConnectDefault", "log">>)
    /\ (lastEvt.kind = "lifecycle" /\ lastEvt.type = "CrossOn")
        => /\ pc = "loop"
           /\ N(calls, "Enable") = 1
           /\ N(calls, "ControlConnectDefault") = 1
           /\ N(calls, "CreateProgram") = 1
           /\ ~sensorOn => \E i \in DOMAIN calls :
                              calls[i].op = "Enable" /\ calls[i + 1].op = "log"
           /\ ~connected => \E i \in DOMAIN calls :
                              calls[i].op = "ControlConnectDefault" /\ calls[i + 1].op = "log"
    /\ lastEvt.kind = "touch" => Ops(calls) = <<"UpdateSticks">>
    /\ (lastEvt.kind = "sensor" /\ lastEvt.type = "Accelerometer" /\ ~GestureEvt(lastEvt))
        => Ops(calls) = <<"UpdateSticks", "GetFlightData">>

C10_Witness ==
    /\ glctx /\ ~connected /\ ~sensorOn
    /\ lastEvt.kind = "touch"
    /\ Ops(calls) = <<"UpdateSticks">>

\* the event is an accelerometer sample that is no gesture
TiltEvt(e) == e.kind = "sensor" /\ e.type = "Accelerometer" /\ ~GestureEvt(e)

\* C11: after an accelerometer sample that is no gesture, roll and pitch
\* lie within [-1, 1]; roll is 0 when x = z = 0 and pitch is 0 when
\* y = z = 0, the cases in which the hypotenuse is zero and the quotient
\* is not evaluated.
C11_TiltInRange ==
    TiltEvt(lastEvt)
        => /\ InUnitRange(velocity.x, TiltUnit)
           /\ InUnitRange(velocity.y, TiltUnit)
           /\ (lastEvt.x = 0 /\ lastEvt.z = 0) => velocity.x = 0
           /\ (lastEvt.y = 0 /\ lastEvt.z = 0) => velocity.y = 0

C11_Witness ==
    /\ lastEvt = Evt("sensor", "Accelerometer", 0, -2 * Gravity, 0)
    /\ velocity.x = 0 /\ velocity.y = 0
    /\ Ops(calls) = <<"UpdateSticks", "GetFlightData">>

\* C12: in a viewport of 100 by 100 pixels a touch begin or move at
\* (50, 50) leaves yaw and throttle within half a pixel step of zero
\* (at most 1/99 in magnitude), and the stick message carries them as at
\* most MaxInt16/99.
C12_CentreNearZero ==
    (/\ appSize = CentreSize
     /\ lastEvt.kind = "touch" /\ lastEvt.type \in {"Begin", "Move"}
     /\ lastEvt.x = 50 /\ lastEvt.y = 50)
        => /\ Abs(yawVelocity) * (CentreSize.WidthPx - 1) <= TouchUnit
           /\ Abs(velocity.z) * (CentreSize.HeightPx - 1) <= TouchUnit
           /\ Len(Sticks) = 1
           /\ Abs(Sticks[1].arg[3]) * (CentreSize.WidthPx - 1) <= MaxInt16
           /\ Abs(Sticks[1].arg[4]) * (CentreSize.HeightPx - 1) <= MaxInt16

C12_Witness ==
    /\ appSize = CentreSize
    /\ lastEvt = Evt("touch", "Move", 50, 50, 0)
    /\ yawVelocity * (CentreSize.WidthPx - 1) = TouchUnit
    /\ velocity.z * (CentreSize.HeightPx - 1) = -TouchUnit
    /\ Len(Sticks) = 1 /\ Sticks[1].arg[3] = 330 /\ Sticks[1].arg[4] = -330

\* C13: after every touch event and every accelerometer sample that is no
\* gesture the handler has sent exactly one stick message; it was built
\* from the axes as the handler left them, Rx, Ry, Lx, Ly being the
\* encodings of roll, pitch, yaw and throttle, each within
\* [-32767, 32767].
C13_OneStickMessage ==
    (lastEvt.kind = "touch" \/ TiltEvt(lastEvt))
        => /\ N(calls, "UpdateSticks") = 1
           /\ LET c == Sticks[1]
              IN  /\ c.ctrl = <<velocity.x, velocity.y, velocity.z, yawVelocity>>
                  /\ c.arg[1] = telloParam(velocity.x, TiltUnit)
                  /\ c.arg[2] = telloParam(velocity.y, TiltUnit)
                  /\ c.arg[3] = telloParam(yawVelocity, TouchUnit)
                  /\ c.arg[4] = telloParam(velocity.z, TouchUnit)
                  /\ \A i \in 1..4 : c.arg[i] \in -MaxInt16..MaxInt16

C13_Witness ==
    /\ TiltEvt(lastEvt)
    /\ N(calls, "UpdateSticks") = 1
    /\ velocity.x = -(TiltUnit \div 2)
    /\ Sticks[1].arg[1] = -16383
    /\ Sticks[1].arg[3] = -MaxInt16 /\ yawVelocity = -TouchUnit
    /\ Sticks[1].arg[4] = MaxInt16

\* C14: a step that handles a touch event leaves roll (velocity.x), pitch
\* (velocity.y) and flightData as they were; a step that handles an
\* accelerometer sample that is no gesture leaves yaw (yawVelocity) and
\* throttle (velocity.z) as they were; neither touches the viewport size,
\* the draw context, the connection or the sensor.
C14_Frame ==
    [][/\ lastEvt'.kind = "touch"
            => /\ velocity'.x = velocity.x /\ velocity'.y = velocity.y
               /\ flightData' = flightData
       /\ TiltEvt(lastEvt')
            => /\ yawVelocity' = yawVelocity /\ velocity'.z = velocity.z
       /\ (lastEvt'.kind = "touch" \/ TiltEvt(lastEvt'))
            => UNCHANGED <<appSize, glctx, connected, sensorOn, paintQ, pc>>]_vars

C14_Witness ==
    /\ TiltEvt(lastEvt)
    /\ velocity.x # 0
    /\ yawVelocity = -TouchUnit /\ velocity.z = TouchUnit
    /\ flightData.Flying
    /\ Ops(calls) = <<"UpdateSticks", "GetFlightData">>

\* C15: a step that handles a gesture sample calls Hover and then exactly
\* one of TakeOff and Land and nothing else (no stick message, no
\* telemetry poll), leaves all four axes at zero rather than at a computed
\* tilt, and leaves flightData as it was; a step that changes flightData
\* handles an accelerometer sample that is no gesture and polls after its
\* stick message.
C15_GesturePath ==
    [][/\ GestureEvt(lastEvt')
            => /\ Ops(calls') \in {<<"Hover", "TakeOff">>, <<"Hover", "Land">>}
               /\ velocity' = ZeroCoord /\ yawVelocity' = 0
               /\ flightData' = flightData
       /\ flightData' # flightData
            => /\ TiltEvt(lastEvt')
               /\ Ops(calls') = <<"UpdateSticks", "GetFlightData">>]_vars

C15_Witness ==
    /\ GestureEvt(lastEvt) /\ lastEvt.y # 0
    /\ Ops(calls) = <<"Hover", "Land">>
    /\ velocity = ZeroCoord /\ yawVelocity = 0
    /\ flightData.Flying /\ flightData.BatteryLow

\* C16: after the handling of CrossOff all four axes are zero; the handler
\* called Hover first, with the axes already zero, then ControlDisconnect,
\* then the accelerometer's Disable, each once, and neither TakeOff nor
\* Land nor a stick message; the draw context is released.
C16_StopOrder ==
    lastEvt = Evt("lifecycle", "CrossOff", 0, 0, 0)
        => /\ velocity = ZeroCoord /\ yawVelocity = 0
           /\ Len(calls) >= 3
           /\ calls[1].op = "Hover" /\ calls[1].ctrl = <<0, 0, 0, 0>>
           /\ calls[2].op = "ControlDisconnect"
           /\ calls[3].op = "Disable"
           /\ \A op \in {"Hover", "ControlDisconnect", "Disable"} : N(calls, op) = 1
           /\ \A op \in {"TakeOff", "Land", "UpdateSticks"} : N(calls, op) = 0
           /\ ~connected /\ ~glctx

C16_Witness ==
    /\ lastEvt = Evt("lifecycle", "CrossOff", 0, 0, 0)
    /\ Ops(calls) = <<"Hover", "ControlDisconnect", "Disable",
                      "DeleteProgram", "DeleteBuffer">>
    /\ flightData.Flying /\ ~sensorOn /\ ~connected

\* the calls onPaint makes
PaintOps == {"ClearColor", "Clear", "DrawArrays"}

\* C17: a step that handles a paint event while the draw context is held
\* and the event is not External runs onPaint, publishes and sends exactly
\* one paint event, so that the number of queued paint events stays; a
\* paint event that is External or arrives while glctx is nil makes no
\* call and queues nothing. onPaint's calls are made only in steps that
\* hold glctx; while glctx stays nil the number of queued paint events
\* never grows, and it grows only in the step that handles CrossOn.
C17_PaintLoop ==
    [][/\ lastEvt'.kind = "paint"
            => /\ glctx' = glctx
               /\ IF glctx /\ lastEvt'.type = "Sent"
                     THEN /\ N(calls', "ClearColor") = 1
                          /\ N(calls', "Publish") = 1
                          /\ N(calls', "Send") = 1
                          /\ calls'[Len(calls')].op = "Send"
                          /\ paintQ' = paintQ
                     ELSE /\ calls' = <<>>
                          /\ paintQ' = IF lastEvt'.type = "Sent"
                                          THEN paintQ - 1 ELSE paintQ
       /\ (\E i \in DOMAIN calls' : calls'[i].op \in PaintOps)
            => glctx /\ glctx' /\ lastEvt'.kind = "paint"
       /\ (~glctx /\ ~glctx') => paintQ' <= paintQ
       /\ paintQ' > paintQ
            => lastEvt' = Evt("lifecycle", "CrossOn", 0, 0, 0) /\ ~glctx /\ glctx'
      ]_vars

C17_Witness ==
    /\ ~glctx /\ ~connected
    /\ lastEvt = Evt("paint", "Sent", 0, 0, 0)
    /\ calls = <<>>
    /\ paintQ = 0

====
